---- MODULE Spec2Model ----
(***************************************************************************)
(* Model of scripts/cleanup_requires_project.py: the recursive stripper    *)
(* clean_configuration_data and the read / clean / diff / write / commit / *)
(* verify run of main() against the sidebar_configurations table.          *)
(*                                                                         *)
(* A JSON document as Python holds it is a tagged record:                  *)
(*   dict  [t |-> "dict", items |-> <<[k |-> key, v |-> value], ...>>]      *)
(*         (entries in insertion order, keys distinct)                     *)
(*   list  [t |-> "list", a |-> <<value, ...>>]                             *)
(*   str   [t |-> "str", s |-> "..."]     int  [t |-> "int", n |-> 1]       *)
(*   bool  [t |-> "bool", b |-> TRUE]     None [t |-> "None"]               *)
(* The table column holds the document's text, the form that               *)
(* configuration_data::text yields and that json.dumps writes.  The        *)
(* modelled domain is integers and strings of letters and digits, for      *)
(* which Python's and the database's text forms coincide.                  *)
(***************************************************************************)
EXTENDS Integers, Sequences, FiniteSets, TLC

VARIABLES
    \* the stripper applied on its own
    tree, cleaned, recleaned, step,
    \* the database: committed rows, the open transaction's view of them,
    \* the rows before the run, the clock behind now()
    table, work, table0, clock,
    \* main(): position, locals, process exit code
    pc, conn, cursor, configurations, idx, updated_count, remaining_count,
    sample, exit_code,
    \* history: the ids of the UPDATEs executed, the commits executed,
    \* whether an exception was raised
    issued, commits, raised

\* ----------------------------------------------------------------- bounds
\* Largest number of nodes of a document the stripper is applied to.
MaxSize == 4
\* Largest number of rows of sidebar_configurations.
MaxRows == 2

\* ------------------------------------------------------------- documents
Dict(items) == [t |-> "dict", items |-> items]
List(a) == [t |-> "list", a |-> a]
Str(s) == [t |-> "str", s |-> s]
IntV(n) == [t |-> "int", n |-> n]
Bool(b) == [t |-> "bool", b |-> b]
None == [t |-> "None"]
Entry(k, v) == [k |-> k, v |-> v]

\* The key the script removes (the literal of line 22).
TargetKey == "requiresProject"

\* isinstance(x, dict), isinstance(x, list)
IsDict(x) == x.t = "dict"
IsList(x) == x.t = "list"

KeysOf(d) == {d.items[j].k : j \in 1..Len(d.items)}
\* d[k] of a dict that has the key k
Get(d, k) == d.items[CHOOSE j \in 1..Len(d.items) : d.items[j].k = k].v

\* ------------------------------------------- clean_configuration_data
RECURSIVE clean_configuration_data(_)

\* A stripper that leaves lists as they are.
clean_skips_lists(config_data) ==
    IF IsDict(config_data)
    THEN LET kept == SelectSeq(config_data.items, LAMBDA e : e.k # TargetKey)
         IN  Dict([j \in 1..Len(kept) |->
                     Entry(kept[j].k, clean_configuration_data(kept[j].v))])
    ELSE config_data

\* A stripper that also drops list items equal to the target name.
clean_filters_lists(config_data) ==
    IF IsDict(config_data)
    THEN LET kept == SelectSeq(config_data.items, LAMBDA e : e.k # TargetKey)
         IN  Dict([j \in 1..Len(kept) |->
                     Entry(kept[j].k, clean_configuration_data(kept[j].v))])
    ELSE IF IsList(config_data)
    THEN LET kept == SelectSeq(config_data.a, LAMBDA x : x # Str(TargetKey))
         IN  List([j \in 1..Len(kept) |-> clean_configuration_data(kept[j])])
    ELSE config_data

\* A stripper that returns early, without recursing, from a dict that holds
\* the target key itself.
clean_early_return(config_data) ==
    IF IsDict(config_data)
    THEN LET kept == SelectSeq(config_data.items, LAMBDA e : e.k # TargetKey)
         IN  IF Len(kept) # Len(config_data.items)
             THEN Dict(kept)
             ELSE Dict([j \in 1..Len(kept) |->
                     Entry(kept[j].k, clean_configuration_data(kept[j].v))])
    ELSE IF IsList(config_data)
    THEN List([j \in 1..Len(config_data.a) |->
                 clean_configuration_data(config_data.a[j])])
    ELSE config_data

clean_configuration_data(config_data) ==
    IF IsDict(config_data)
    THEN LET kept == SelectSeq(config_data.items, LAMBDA e : e.k # TargetKey)
         IN  Dict([j \in 1..Len(kept) |->
                     Entry(kept[j].k, clean_configuration_data(kept[j].v))])
    ELSE IF IsList(config_data)
    THEN List([j \in 1..Len(config_data.a) |->
                 clean_configuration_data(config_data.a[j])])
    ELSE config_data

\* ------------------------------------------------- the bounded inputs
Keys == {"a", TargetKey}
Scalars == {Str(TargetKey), IntV(1), Bool(TRUE), None}

\* The sequences of distinct keys of length n.
KeySeqs(n) == {ks \in [1..n -> Keys] : \A p, q \in 1..n : p # q => ks[p] # ks[q]}

RECURSIVE TreesOfSize(_), Forests(_)
\* The sequences of documents with n nodes in all.
Forests(n) ==
    IF n = 0 THEN {<<>>}
    ELSE UNION {{<<x>> \o f : x \in TreesOfSize(m), f \in Forests(n - m)} : m \in 1..n}

\* The documents with exactly n nodes.
TreesOfSize(n) ==
    IF n = 1 THEN Scalars \cup {List(<<>>), Dict(<<>>)}
    ELSE {List(f) : f \in Forests(n - 1)}
         \cup UNION {{Dict([j \in 1..Len(f) |-> Entry(ks[j], f[j])]) : ks \in KeySeqs(Len(f))}
                       : f \in {g \in Forests(n - 1) : Len(g) <= Cardinality(Keys)}}

Trees == UNION {TreesOfSize(n) : n \in 1..MaxSize}

\* ------------------------------------------------------------ json text
\* The characters of keys and strings, in code point order.
CodePoints == "0123456789ABCDEFGHIJKLMNOPQRSTUVWXYZ_abcdefghijklmnopqrstuvwxyz"
Ord(c) == CHOOSE p \in 1..Len(CodePoints) : SubSeq(CodePoints, p, p) = c

\* Python's str < str
RECURSIVE StrLess(_, _)
StrLess(x, y) ==
    IF y = "" THEN FALSE
    ELSE IF x = "" THEN TRUE
    ELSE IF Head(x) = Head(y) THEN StrLess(Tail(x), Tail(y))
    ELSE Ord(Head(x)) < Ord(Head(y))

\* sorted(dct.items()) of json.dumps(sort_keys=True)
RECURSIVE SortItems(_)
SortItems(items) ==
    IF items = <<>> THEN <<>>
    ELSE LET least == CHOOSE j \in 1..Len(items) :
                          \A q \in 1..Len(items) : q # j => StrLess(items[j].k, items[q].k)
         IN  <<items[least]>>
             \o SortItems(SubSeq(items, 1, least - 1) \o SubSeq(items, least + 1, Len(items)))

RECURSIVE Join(_)
\* ", ".join(parts)
Join(parts) ==
    IF parts = <<>> THEN ""
    ELSE IF Len(parts) = 1 THEN parts[1]
    ELSE parts[1] \o ", " \o Join(Tail(parts))

RECURSIVE dumps(_, _)
\* json.dumps(obj, sort_keys=sort_keys), default separators
dumps(obj, sort_keys) ==
    CASE obj.t = "dict" ->
           LET items == IF sort_keys THEN SortItems(obj.items) ELSE obj.items
           IN  "{" \o Join([j \in 1..Len(items) |->
                    "\"" \o items[j].k \o "\": " \o dumps(items[j].v, sort_keys)]) \o "}"
      [] obj.t = "list" ->
           "[" \o Join([j \in 1..Len(obj.a) |-> dumps(obj.a[j], sort_keys)]) \o "]"
      [] obj.t = "str" -> "\"" \o obj.s \o "\""
      [] obj.t = "int" -> ToString(obj.n)
      [] obj.t = "bool" -> IF obj.b THEN "true" ELSE "false"
      [] obj.t = "None" -> "null"

Char(s, p) == IF p >= 1 /\ p <= Len(s) THEN SubSeq(s, p, p) ELSE ""
Digits == {"0", "1", "2", "3", "4", "5", "6", "7", "8", "9"}
DigitVal(c) == CHOOSE d \in 0..9 : ToString(d) = c

RECURSIVE SkipWs(_, _)
SkipWs(s, p) == IF Char(s, p) = " " THEN SkipWs(s, p + 1) ELSE p

RECURSIVE QuoteAt(_, _)
\* the position of the next double quote at or after p
QuoteAt(s, p) == IF Char(s, p) = "\"" \/ p > Len(s) THEN p ELSE QuoteAt(s, p + 1)

RECURSIVE ScanInt(_, _, _)
ScanInt(s, p, acc) ==
    IF Char(s, p) \in Digits THEN ScanInt(s, p + 1, acc * 10 + DigitVal(Char(s, p)))
    ELSE [v |-> IntV(acc), n |-> p]

\* dict[key] = value while decoding: a repeated key keeps its place and
\* takes the later value
PutItem(items, key, value) ==
    IF \E j \in 1..Len(items) : items[j].k = key
    THEN [j \in 1..Len(items) |-> IF items[j].k = key THEN Entry(key, value) ELSE items[j]]
    ELSE Append(items, Entry(key, value))

RECURSIVE ParseValue(_, _), ParseItems(_, _, _), ParseElements(_, _, _)
\* The decoder behind json.loads: the value that starts at position p and
\* the position after it.
ParseValue(s, p) ==
    LET c == Char(s, p)
    IN  CASE c = "{" ->
               IF Char(s, SkipWs(s, p + 1)) = "}"
               THEN [v |-> Dict(<<>>), n |-> SkipWs(s, p + 1) + 1]
               ELSE ParseItems(s, SkipWs(s, p + 1), <<>>)
          [] c = "[" ->
               IF Char(s, SkipWs(s, p + 1)) = "]"
               THEN [v |-> List(<<>>), n |-> SkipWs(s, p + 1) + 1]
               ELSE ParseElements(s, SkipWs(s, p + 1), <<>>)
          [] c = "\"" ->
               LET e == QuoteAt(s, p + 1)
               IN  [v |-> Str(SubSeq(s, p + 1, e - 1)), n |-> e + 1]
          [] c = "t" -> [v |-> Bool(TRUE), n |-> p + 4]
          [] c = "f" -> [v |-> Bool(FALSE), n |-> p + 5]
          [] c = "n" -> [v |-> None, n |-> p + 4]
          [] OTHER -> ScanInt(s, p, 0)

ParseItems(s, p, acc) ==
    LET e == QuoteAt(s, p + 1)
        key == SubSeq(s, p + 1, e - 1)
        colon == SkipWs(s, e + 1)
        r == ParseValue(s, SkipWs(s, colon + 1))
        items == PutItem(acc, key, r.v)
        q == SkipWs(s, r.n)
    IN  IF Char(s, q) = ","
        THEN ParseItems(s, SkipWs(s, q + 1), items)
        ELSE [v |-> Dict(items), n |-> q + 1]

ParseElements(s, p, acc) ==
    LET r == ParseValue(s, p)
        q == SkipWs(s, r.n)
    IN  IF Char(s, q) = ","
        THEN ParseElements(s, SkipWs(s, q + 1), Append(acc, r.v))
        ELSE [v |-> List(Append(acc, r.v)), n |-> q + 1]

\* json.loads, which the driver applies to a fetched json column
loads(s) == ParseValue(s, SkipWs(s, 1)).v

\* text LIKE '%pattern%'
Like(text, pattern) ==
    \E p \in 1..(Len(text) - Len(pattern) + 1) :
        SubSeq(text, p, p + Len(pattern) - 1) = pattern

\* ------------------------------------------------------------ the table
\* Documents of the table's rows: the three end-to-end scenarios, a
\* document that holds the target name as a string value, and a list.
DocA ==
    Dict(<<Entry("sections", List(<<Dict(<<Entry("items", List(<<
        Dict(<<Entry("id", IntV(1)), Entry(TargetKey, Bool(TRUE)), Entry("label", Str("X"))>>)
    >>))>>)>>))>>)
DocB ==
    Dict(<<Entry("sections", List(<<Dict(<<Entry("items", List(<<
        Dict(<<Entry("label", Str("X")), Entry("id", IntV(1))>>)
    >>))>>)>>))>>)
DocC == Dict(<<Entry(TargetKey, Dict(<<Entry("nested", Str("value"))>>))>>)
DocD == Dict(<<Entry("label", Str(TargetKey))>>)
DocE == List(<<Dict(<<Entry(TargetKey, None)>>), IntV(1)>>)
MainDocs == {DocA, DocB, DocC, DocD, DocE}

Row(name, text, at) == [name |-> name, configuration_data |-> text, updated_at |-> at]

\* The tables the run may find: ids 1..n, each document in its text form.
Tables ==
    UNION {{[id \in 1..n |-> Row("config" \o ToString(id), dumps(docs[id], FALSE), 0)]
              : docs \in [1..n -> MainDocs]} : n \in 0..MaxRows}

\* The orders in which a SELECT without ORDER BY may return the ids of db.
Orders(db) ==
    {o \in [1..Cardinality(DOMAIN db) -> DOMAIN db] :
        \A p, q \in 1..Cardinality(DOMAIN db) : p # q => o[p] # o[q]}

\* An UPDATE that has no WHERE clause.
Update_every_row(db, text, config_id, now) ==
    [id \in DOMAIN db |-> [db[id] EXCEPT !.configuration_data = text, !.updated_at = now]]

\* UPDATE sidebar_configurations SET configuration_data = %s,
\* updated_at = now() WHERE id = %s
Update(db, text, config_id, now) ==
    [id \in DOMAIN db |->
        IF id = config_id
        THEN [db[id] EXCEPT !.configuration_data = text, !.updated_at = now]
        ELSE db[id]]

\* A connection in autocommit mode persists each statement at once.
AfterExecute_autocommit(committed, txn) == txn

\* The committed rows after a statement of an open transaction: the
\* connection is not in autocommit mode, so they are as before.
AfterExecute(committed, txn) == committed

\* SELECT count(*) ... WHERE configuration_data::text LIKE '%requiresProject%'
CountRemaining(db) ==
    Cardinality({id \in DOMAIN db : Like(db[id].configuration_data, "requiresProject")})

\* json -> 'key' and json -> index; SQL NULL is Python's None
Field(x, key) == IF IsDict(x) /\ key \in KeysOf(x) THEN Get(x, key) ELSE None
Element(x, p) == IF IsList(x) /\ p + 1 <= Len(x.a) THEN x.a[p + 1] ELSE None
\* configuration_data->'sections'->0->'items'->0
SampleItem(x) == Element(Field(Element(Field(x, "sections"), 0), "items"), 0)

\* Python's truth value
Truthy(x) ==
    CASE x.t = "dict" -> x.items # <<>>
      [] x.t = "list" -> x.a # <<>>
      [] x.t = "str" -> x.s # ""
      [] x.t = "int" -> x.n # 0
      [] x.t = "bool" -> x.b
      [] OTHER -> FALSE

\* ----------------------------------------------------------------- main
\* A change test that looks only at the top-level keys.
Changed_top_level_only(config_data, cleaned_data) ==
    IsDict(config_data) /\ TargetKey \in KeysOf(config_data)

\* original_str != cleaned_str
Changed(config_data, cleaned_data) ==
    dumps(config_data, TRUE) # dumps(cleaned_data, TRUE)

NotYet == [t |-> "unset"]

cleanVars == <<tree, cleaned, recleaned, step>>
dbVars == <<table, work, table0, clock>>
mainVars == <<pc, conn, cursor, configurations, idx, updated_count, remaining_count,
              sample, exit_code, issued, commits, raised>>
vars == <<cleanVars, dbVars, mainVars>>

MainIdle ==
    /\ pc = "connect"
    /\ conn = "unbound"
    /\ cursor = "unbound"
    /\ configurations = <<>>
    /\ idx = 0
    /\ updated_count = 0
    /\ remaining_count = 0
    /\ sample = NotYet
    /\ exit_code = 0
    /\ issued = <<>>
    /\ commits = 0
    /\ raised = FALSE

Init ==
    /\ tree = NotYet /\ cleaned = NotYet /\ recleaned = NotYet /\ step = "unused"
    /\ table \in Tables
    /\ work = table
    /\ table0 = table
    /\ clock = 1
    /\ MainIdle

\* An exception raised at the step the run is at: control goes to the
\* except clause.
Raise ==
    /\ raised' = TRUE
    /\ pc' = "except"

\* conn = psycopg2.connect(DB_CONNECTION)
Connect ==
    /\ pc = "connect"
    /\ conn' = "open"
    /\ pc' = "cursor"
    /\ UNCHANGED <<cleanVars, dbVars, cursor, configurations, idx, updated_count,
                   remaining_count, sample, exit_code, issued, commits, raised>>

ConnectFail ==
    /\ pc = "connect"
    /\ Raise
    /\ UNCHANGED <<cleanVars, dbVars, conn, cursor, configurations, idx, updated_count,
                   remaining_count, sample, exit_code, issued, commits>>

\* cursor = conn.cursor(cursor_factory=RealDictCursor)
Cursor ==
    /\ pc = "cursor"
    /\ cursor' = "open"
    /\ pc' = "select"
    /\ UNCHANGED <<cleanVars, dbVars, conn, configurations, idx, updated_count,
                   remaining_count, sample, exit_code, issued, commits, raised>>

CursorFail ==
    /\ pc = "cursor"
    /\ Raise
    /\ UNCHANGED <<cleanVars, dbVars, conn, cursor, configurations, idx, updated_count,
                   remaining_count, sample, exit_code, issued, commits>>

\* cursor.execute(SELECT id, name, configuration_data ...); fetchall();
\* updated_count = 0
Select ==
    /\ pc = "select"
    /\ \E o \in Orders(work) :
         configurations' =
             [p \in 1..Len(o) |->
                 [id |-> o[p], name |-> work[o[p]].name,
                  configuration_data |-> loads(work[o[p]].configuration_data)]]
    /\ idx' = 1
    /\ updated_count' = 0
    /\ pc' = "loop"
    /\ UNCHANGED <<cleanVars, dbVars, conn, cursor, remaining_count, sample, exit_code,
                   issued, commits, raised>>

SelectFail ==
    /\ pc = "select"
    /\ Raise
    /\ UNCHANGED <<cleanVars, dbVars, conn, cursor, configurations, idx, updated_count,
                   remaining_count, sample, exit_code, issued, commits>>

\* One pass of the loop body whose UPDATE, when there is one, succeeds.
ProcessRow ==
    /\ pc = "loop"
    /\ idx <= Len(configurations)
    /\ LET config == configurations[idx]
           config_id == config.id
           config_data == config.configuration_data
           cleaned_data == clean_configuration_data(config_data)
       IN  IF Changed(config_data, cleaned_data)
           THEN /\ work' = Update(work, dumps(cleaned_data, FALSE), config_id, clock)
                /\ table' = AfterExecute(table, work')
                /\ updated_count' = updated_count + 1
                /\ issued' = Append(issued, config_id)
           ELSE UNCHANGED <<work, table, updated_count, issued>>
    /\ idx' = idx + 1
    /\ UNCHANGED <<cleanVars, table0, clock, pc, conn, cursor, configurations,
                   remaining_count, sample, exit_code, commits, raised>>

\* The UPDATE of a changed row raises.
UpdateFail ==
    /\ pc = "loop"
    /\ idx <= Len(configurations)
    /\ LET config_data == configurations[idx].configuration_data
       IN  Changed(config_data, clean_configuration_data(config_data))
    /\ Raise
    /\ UNCHANGED <<cleanVars, dbVars, conn, cursor, configurations, idx, updated_count,
                   remaining_count, sample, exit_code, issued, commits>>

\* conn.commit(), after the loop
Commit ==
    /\ pc = "loop"
    /\ idx > Len(configurations)
    /\ table' = work
    /\ commits' = commits + 1
    /\ pc' = "verify"
    /\ UNCHANGED <<cleanVars, work, table0, clock, conn, cursor, configurations, idx,
                   updated_count, remaining_count, sample, exit_code, issued, raised>>

\* conn.commit() raises: the transaction is not committed.
CommitFail ==
    /\ pc = "loop"
    /\ idx > Len(configurations)
    /\ Raise
    /\ UNCHANGED <<cleanVars, dbVars, conn, cursor, configurations, idx, updated_count,
                   remaining_count, sample, exit_code, issued, commits>>

\* The verification query and remaining_count = cursor.fetchone()['count']
Verify ==
    /\ pc = "verify"
    /\ remaining_count' = CountRemaining(work)
    /\ pc' = "sample"
    /\ UNCHANGED <<cleanVars, dbVars, conn, cursor, configurations, idx, updated_count,
                   sample, exit_code, issued, commits, raised>>

VerifyFail ==
    /\ pc = "verify"
    /\ Raise
    /\ UNCHANGED <<cleanVars, dbVars, conn, cursor, configurations, idx, updated_count,
                   remaining_count, sample, exit_code, issued, commits>>

\* The sample query (LIMIT 1, any row) and the printing of its item when
\* there is a row and the item is truthy; the try block ends.
Sample ==
    /\ pc = "sample"
    /\ \/ /\ DOMAIN work = {}
          /\ sample' = None
       \/ \E id \in DOMAIN work :
             LET sample_item == SampleItem(loads(work[id].configuration_data))
             IN  sample' = IF Truthy(sample_item) THEN sample_item ELSE None
    /\ pc' = "finally"
    /\ UNCHANGED <<cleanVars, dbVars, conn, cursor, configurations, idx, updated_count,
                   remaining_count, exit_code, issued, commits, raised>>

SampleFail ==
    /\ pc = "sample"
    /\ Raise
    /\ UNCHANGED <<cleanVars, dbVars, conn, cursor, configurations, idx, updated_count,
                   remaining_count, sample, exit_code, issued, commits>>

\* An except clause that prints the error and falls through.
Except_no_exit ==
    /\ pc = "except"
    /\ pc' = "finally"
    /\ UNCHANGED <<cleanVars, dbVars, conn, cursor, configurations, idx, updated_count,
                   remaining_count, sample, exit_code, issued, commits, raised>>

\* except Exception as e: print the error; sys.exit(1)
Except ==
    /\ pc = "except"
    /\ exit_code' = 1
    /\ pc' = "finally"
    /\ UNCHANGED <<cleanVars, dbVars, conn, cursor, configurations, idx, updated_count,
                   remaining_count, sample, issued, commits, raised>>

\* A finally clause that closes the cursor and leaves the connection open.
Finally_cursor_only ==
    /\ pc = "finally"
    /\ cursor' = IF cursor # "unbound" THEN "closed" ELSE cursor
    /\ pc' = "exited"
    /\ UNCHANGED <<cleanVars, dbVars, conn, configurations, idx, updated_count,
                   remaining_count, sample, exit_code, issued, commits, raised>>

\* finally: cursor.close() if 'cursor' in locals(); conn.close() if 'conn'
\* in locals(), which discards what the transaction has not committed; the
\* process ends
Finally ==
    /\ pc = "finally"
    /\ cursor' = IF cursor # "unbound" THEN "closed" ELSE cursor
    /\ conn' = IF conn # "unbound" THEN "closed" ELSE conn
    /\ work' = table
    /\ pc' = "exited"
    /\ UNCHANGED <<cleanVars, table, table0, clock, configurations, idx, updated_count,
                   remaining_count, sample, exit_code, issued, commits, raised>>

Next ==
    \/ Connect \/ ConnectFail
    \/ Cursor \/ CursorFail
    \/ Select \/ SelectFail
    \/ ProcessRow \/ UpdateFail
    \/ Commit \/ CommitFail
    \/ Verify \/ VerifyFail
    \/ Sample \/ SampleFail
    \/ Except
    \/ Finally

Spec == Init /\ [][Next]_vars

\* ------------------------------------- the stripper applied on its own
CleanInit ==
    /\ tree \in Trees
    /\ cleaned = NotYet
    /\ recleaned = NotYet
    /\ step = "input"
    /\ table = <<>> /\ work = <<>> /\ table0 = <<>> /\ clock = 1
    /\ MainIdle

\* cleaned_data = clean_configuration_data(config_data)
CleanOnce ==
    /\ step = "input"
    /\ cleaned' = clean_configuration_data(tree)
    /\ step' = "once"
    /\ UNCHANGED <<tree, recleaned, dbVars, mainVars>>

\* the stripper applied to its own output
CleanTwice ==
    /\ step = "once"
    /\ recleaned' = clean_configuration_data(cleaned)
    /\ step' = "twice"
    /\ UNCHANGED <<tree, cleaned, dbVars, mainVars>>

CleanNext == CleanOnce \/ CleanTwice
SpecClean == CleanInit /\ [][CleanNext]_vars

\* ---------------------------------------------------------------- claims
\* Whether x holds the target key as a dict key at some depth.
RECURSIVE HasKey(_)
HasKey(x) ==
    IF IsDict(x)
    THEN \E j \in 1..Len(x.items) : x.items[j].k = TargetKey \/ HasKey(x.items[j].v)
    ELSE IF IsList(x) THEN \E j \in 1..Len(x.a) : HasKey(x.a[j])
    ELSE FALSE

\* Walking input and output together: each dict of the output has the keys
\* of the input's dict at that place less the target key, each once.
RECURSIVE KeySetsStripped(_, _)
KeySetsStripped(in, out) ==
    IF IsDict(in)
    THEN /\ IsDict(out)
         /\ KeysOf(out) = KeysOf(in) \ {TargetKey}
         /\ Len(out.items) = Cardinality(KeysOf(out))
         /\ \A k \in KeysOf(out) : KeySetsStripped(Get(in, k), Get(out, k))
    ELSE IF IsList(in)
    THEN /\ IsList(out)
         /\ Len(out.a) = Len(in.a)
         /\ \A j \in 1..Len(in.a) : KeySetsStripped(in.a[j], out.a[j])
    ELSE TRUE

\* C1: the cleaned document has, at every depth (inside dicts and inside
\* lists), for each dict of the input that is kept, a dict whose key set
\* is the input dict's key set minus {'requiresProject'}; the entry under
\* 'requiresProject' goes with its whole value, so no dict of the output
\* holds that key, and no other entry is dropped or added.
C1_KeySetsMinusTarget ==
    step # "input" => KeySetsStripped(tree, cleaned) /\ ~HasKey(cleaned)

\* The stripper has run on [{"requiresProject": {"a": 1}}] and produced [{}].
C1_Witness ==
    /\ step = "once"
    /\ tree = List(<<Dict(<<Entry(TargetKey, Dict(<<Entry("a", IntV(1))>>))>>)>>)
    /\ cleaned = List(<<Dict(<<>>)>>)

\* C2: applying the stripper to its own output gives that output again.
C2_Idempotent == step = "twice" => recleaned = cleaned

\* The stripper has run twice from {"requiresProject": 1, "a": {"requiresProject": 1}}.
C2_Witness ==
    /\ step = "twice"
    /\ tree = Dict(<<Entry(TargetKey, IntV(1)),
                     Entry("a", Dict(<<Entry(TargetKey, IntV(1))>>))>>)
    /\ cleaned # tree

\* Walking input and output together: every kept node has the type it had,
\* a scalar is the same scalar, a list has the same length with the cleaned
\* j-th element of the input as its j-th element.
RECURSIVE ShapeKept(_, _)
ShapeKept(in, out) ==
    /\ out.t = in.t
    /\ IF IsDict(in)
       THEN \A j \in 1..Len(out.items) :
               /\ out.items[j].k \in KeysOf(in)
               /\ ShapeKept(Get(in, out.items[j].k), out.items[j].v)
       ELSE IF IsList(in)
       THEN /\ Len(out.a) = Len(in.a)
            /\ \A j \in 1..Len(in.a) :
                  /\ out.a[j] = clean_configuration_data(in.a[j])
                  /\ ShapeKept(in.a[j], out.a[j])
       ELSE out = in

\* C3: the stripper never changes the type (dict / list / scalar) of a kept
\* node, returns every scalar unchanged, and maps a list to a list of the
\* same length whose j-th element is the cleaned j-th element of the input.
C3_TypesAndListsKept == step # "input" => ShapeKept(tree, cleaned)

\* The stripper has run on a list of two unlike elements, the first a dict
\* that holds the target key.
C3_Witness ==
    /\ step = "once"
    /\ tree = List(<<Dict(<<Entry(TargetKey, IntV(1))>>), Str(TargetKey)>>)
    /\ cleaned = List(<<Dict(<<>>), Str(TargetKey)>>)

\* The document a row held before the run, as Python reads it.
DocBefore(id) == loads(table0[id].configuration_data)
\* The rows whose loop pass has completed.
Processed == IF idx = 0 THEN 0 ELSE idx - 1
UpdatesOf(id) == Cardinality({p \in 1..Len(issued) : issued[p] = id})

\* C4: in the loop, a fetched row whose pass has completed has had exactly
\* one UPDATE, keyed by its id, if its document holds 'requiresProject' at
\* some depth and none otherwise; no other UPDATE is executed; and
\* updated_count is the number of completed rows whose document held the
\* key, so at the end of the loop the number of fetched rows that did.
C4_OneUpdatePerRowWithKey ==
    /\ \A p \in 1..Len(configurations) :
          UpdatesOf(configurations[p].id) =
              IF p <= Processed /\ HasKey(DocBefore(configurations[p].id)) THEN 1 ELSE 0
    /\ Len(issued) = updated_count
    /\ updated_count =
          Cardinality({p \in 1..Processed : HasKey(DocBefore(configurations[p].id))})

\* The loop has ended over two rows, one with the key nested in lists and
\* one without the key.
C4_Witness ==
    /\ pc = "verify"
    /\ Len(configurations) = 2
    /\ DocBefore(configurations[1].id) = DocB
    /\ DocBefore(configurations[2].id) = DocA
    /\ updated_count = 1

\* C5: when the run ends with no exception, every row's stored document is
\* the stripper's output for the document the row held when fetched, and no
\* stored document holds the key 'requiresProject' at any depth.
C5_StoreCleanedAtEnd ==
    (pc = "exited" /\ ~raised) =>
        \A id \in DOMAIN table :
            /\ loads(table[id].configuration_data) = clean_configuration_data(DocBefore(id))
            /\ ~HasKey(loads(table[id].configuration_data))

\* A run has ended normally over a table that held scenario A's document
\* and a list with the key inside.
C5_Witness ==
    /\ pc = "exited" /\ ~raised
    /\ \E id \in DOMAIN table : DocBefore(id) = DocA /\ table[id] # table0[id]
    /\ \E id \in DOMAIN table : DocBefore(id) = DocE

\* C6: the verification query returns 0 whenever the store holds only
\* cleaned documents (outputs of the stripper).
C6_VerificationZeroOnCleanStore ==
    (pc = "sample"
       /\ \A id \in DOMAIN work :
             LET doc == loads(work[id].configuration_data)
             IN  clean_configuration_data(doc) = doc)
    => remaining_count = 0

\* C7: when the process has ended, on every path, the connection is closed
\* if it was opened and the cursor is closed if it was created.
C7_ResourcesClosedAtExit ==
    pc = "exited" => conn \in {"unbound", "closed"} /\ cursor \in {"unbound", "closed"}

\* The process has ended after an exception past the commit, with both
\* resources acquired.
C7_Witness ==
    /\ pc = "exited" /\ raised /\ commits = 1
    /\ conn = "closed" /\ cursor = "closed"

\* C8: the exit code is 0 exactly when the run ended with no exception, a
\* non-zero verification count included, and non-zero after any exception.
C8_ExitCode ==
    pc = "exited" => /\ exit_code = 0 <=> ~raised
                     /\ raised => exit_code # 0

\* The process has ended with exit code 0 although the verification count
\* was not 0.
C8_Witness == pc = "exited" /\ exit_code = 0 /\ remaining_count > 0

\* C9: commit is executed at most once and only when every row of the table
\* has been fetched and processed; as long as no commit was executed,
\* also at the end of a run an exception cut short, the committed rows
\* are the rows before the run.
C9_AllOrNothing ==
    /\ commits <= 1
    /\ commits = 1 =>
          /\ Len(configurations) = Cardinality(DOMAIN table0)
          /\ idx > Len(configurations)
    /\ commits = 0 => table = table0

\* The process has ended after the second row's UPDATE raised, the first
\* row's UPDATE having been executed.
C9_Witness ==
    /\ pc = "exited" /\ raised /\ commits = 0
    /\ idx = 2 /\ Len(issued) = 1

\* The frame of the run on the rows db.
Frame(db) ==
    /\ DOMAIN db = DOMAIN table0
    /\ \A id \in DOMAIN db :
          /\ db[id].name = table0[id].name
          /\ ~HasKey(DocBefore(id)) => db[id] = table0[id]
          /\ (\/ db[id].configuration_data # table0[id].configuration_data
              \/ db[id].updated_at # table0[id].updated_at)
             => clean_configuration_data(DocBefore(id)) # DocBefore(id)

\* C10: the row ids are those before the run, no name changes, a row whose
\* document held no 'requiresProject' keeps its configuration_data and
\* updated_at, and only rows whose document changes under the stripper
\* have them modified; this for the committed rows and in the transaction.
C10_Frame == Frame(table) /\ Frame(work)

\* A run has ended normally having rewritten one row, with now() as its
\* updated_at, and left another as it was.
C10_Witness ==
    /\ pc = "exited" /\ ~raised
    /\ \E id1, id2 \in DOMAIN table :
          /\ table[id1].configuration_data # table0[id1].configuration_data
          /\ table[id1].updated_at = clock
          /\ ~HasKey(DocBefore(id2))
          /\ table[id2] = table0[id2]
====
